---- MODULE Spec2Model ----
(***************************************************************************)
(* A model of discord/asset.py: the Asset value type, its URL factories,   *)
(* its str/len/bool observations, and the coroutines read() and save().    *)
(*                                                                         *)
(* Optional Python values are sequences of length 0 or 1: None is << >>    *)
(* and a present value v is <<v>>.  URLs, hashes and formats are strings,  *)
(* built with the same concatenations as the f-strings of the source.      *)
(***************************************************************************)
EXTENDS Integers, Sequences, FiniteSets, TLC

VARIABLES
    call,      \* the factory / constructor call made (SpecFactory)
    result,    \* what that call returned or raised   (SpecFactory)
    pc,        \* per task: position inside read() / save()
    req,       \* per task: the call's receiver and arguments
    data,      \* per task: the local `data` of save(), or read()'s value
    ret,       \* per task: what the coroutine returned or raised
    http,      \* the transport: per calling task, the URLs it was asked to GET
    files,     \* the filesystem: path -> None or <<content>>
    handle,    \* per task: the file object `f` opened by save()
    sinks,     \* the open byte sinks: id -> [buf, pos, closed]
    running    \* the task the event loop is executing synchronously, if any

vars == <<call, result, pc, req, data, ret, http, files, handle, sinks, running>>

factoryVars == <<call, result>>
ioVars == <<pc, req, data, ret, http, files, handle, sinks, running>>

-----------------------------------------------------------------------------
(* Python values *)

None == << >>
Some(v) == <<v>>
Get(o) == o[1]

\* Truthiness of an Optional[str]: None and '' are falsy.
Truthy(o) == o # << >> /\ o[1] # ""

Return(v) == [tag |-> "return", value |-> v]
Raise(e, m) == [tag |-> "raise", exc |-> e, msg |-> m]

-----------------------------------------------------------------------------
(* Module constants *)

VALID_STATIC_FORMATS == {"jpeg", "jpg", "webp", "png"}
\* the avatar formats, had the animated one been left out
VALID_AVATAR_FORMATS_static == VALID_STATIC_FORMATS
VALID_AVATAR_FORMATS == VALID_STATIC_FORMATS \cup {"gif"}

BASE == "https://cdn.discordapp.com"

-----------------------------------------------------------------------------
(* utils.valid_icon_size and the domain objects' animation predicates *)

RECURSIVE BitAnd(_, _)
BitAnd(a, b) ==
    IF a = 0 \/ b = 0 THEN 0
    ELSE (IF a % 2 = 1 /\ b % 2 = 1 THEN 1 ELSE 0) + 2 * BitAnd(a \div 2, b \div 2)

\* a power of two within [16, 4096]
valid_icon_size(size) ==
    /\ size \in 16..4096
    /\ BitAnd(size, size - 1) = 0

\* an image hash encodes animation by its "a_" prefix
HashAnimated(hash) ==
    /\ hash # None
    /\ Len(Get(hash)) >= 2
    /\ SubSeq(Get(hash), 1, 2) = "a_"

is_avatar_animated(user) == HashAnimated(user.avatar)
is_icon_animated(guild) == HashAnimated(guild.icon)

-----------------------------------------------------------------------------
(* class Asset *)

Asset(state, url) == [_state |-> state, _url |-> url]

_from_avatar(state, user, format, static_format, size) ==
    IF ~valid_icon_size(size)
        THEN Raise("InvalidArgument", "size must be a power of 2 between 16 and 4096")
    ELSE IF format # None /\ Get(format) \notin VALID_AVATAR_FORMATS
        THEN Raise("InvalidArgument", "format must be None or one of VALID_AVATAR_FORMATS")
    ELSE IF format = Some("gif") /\ ~is_avatar_animated(user)
        THEN Raise("InvalidArgument", "non animated avatars do not support gif format")
    ELSE IF static_format \notin VALID_STATIC_FORMATS
        THEN Raise("InvalidArgument", "static_format must be one of VALID_STATIC_FORMATS")
    ELSE IF user.avatar = None
        THEN Return(user.default_avatar_url)
    ELSE LET fmt == IF format = None
                    THEN (IF is_avatar_animated(user) THEN "gif" ELSE static_format)
                    ELSE Get(format)
         IN  Return(Asset(state, Some("/avatars/" \o ToString(user.id) \o "/"
                 \o Get(user.avatar) \o "." \o fmt \o "?size=" \o ToString(size))))

_from_icon(state, object, path, format, size) ==
    IF object.icon = None
        THEN Return(Asset(state, None))
    ELSE IF ~valid_icon_size(size)
        THEN Raise("InvalidArgument", "size must be a power of 2 between 16 and 4096")
    ELSE IF format \notin VALID_STATIC_FORMATS
        THEN Raise("InvalidArgument", "format must be None or one of VALID_STATIC_FORMATS")
    ELSE Return(Asset(state, Some("/" \o path \o "-icons/" \o ToString(object.id) \o "/"
             \o Get(object.icon) \o "." \o format \o "?size=" \o ToString(size))))

_from_cover_image(state, obj, format, size) ==
    IF obj.cover_image = None
        THEN Return(Asset(state, None))
    ELSE IF ~valid_icon_size(size)
        THEN Raise("InvalidArgument", "size must be a power of 2 between 16 and 4096")
    ELSE IF format \notin VALID_STATIC_FORMATS
        THEN Raise("InvalidArgument", "format must be None or one of VALID_STATIC_FORMATS")
    ELSE Return(Asset(state, Some("/app-assets/" \o ToString(obj.id) \o "/store/"
             \o Get(obj.cover_image) \o "." \o format \o "?size=" \o ToString(size))))

_from_guild_image(state, id, hash, key, format, size) ==
    IF ~valid_icon_size(size)
        THEN Raise("InvalidArgument", "size must be a power of 2 between 16 and 4096")
    ELSE IF format \notin VALID_STATIC_FORMATS
        THEN Raise("InvalidArgument", "format must be one of VALID_STATIC_FORMATS")
    ELSE IF hash = None
        THEN Return(Asset(state, None))
    ELSE Return(Asset(state, Some("/" \o key \o "/" \o ToString(id) \o "/"
             \o Get(hash) \o "." \o format \o "?size=" \o ToString(size))))

_from_guild_icon(state, guild, format, static_format, size) ==
    IF ~valid_icon_size(size)
        THEN Raise("InvalidArgument", "size must be a power of 2 between 16 and 4096")
    ELSE IF format # None /\ Get(format) \notin VALID_AVATAR_FORMATS
        THEN Raise("InvalidArgument", "format must be one of VALID_AVATAR_FORMATS")
    ELSE IF format = Some("gif") /\ ~is_icon_animated(guild)
        THEN Raise("InvalidArgument", "non animated guild icons do not support gif format")
    ELSE IF static_format \notin VALID_STATIC_FORMATS
        THEN Raise("InvalidArgument", "static_format must be one of VALID_STATIC_FORMATS")
    ELSE IF guild.icon = None
        THEN Return(Asset(state, None))
    ELSE LET fmt == IF format = None
                    THEN (IF is_icon_animated(guild) THEN "gif" ELSE static_format)
                    ELSE Get(format)
         IN  Return(Asset(state, Some("/icons/" \o ToString(guild.id) \o "/"
                 \o Get(guild.icon) \o "." \o fmt \o "?size=" \o ToString(size))))

_from_sticker_url(state, sticker, size) ==
    IF ~valid_icon_size(size)
        THEN Raise("InvalidArgument", "size must be a power of 2 between 16 and 4096")
    ELSE Return(Asset(state, Some("/stickers/" \o ToString(sticker.id) \o "/"
             \o sticker.image \o ".png?size=" \o ToString(size))))

\* _from_emoji, had the default format ignored the animation flag
_from_emoji_static(state, emoji, format, static_format) ==
    IF format # None /\ Get(format) \notin VALID_AVATAR_FORMATS
        THEN Raise("InvalidArgument", "format must be None or one of VALID_AVATAR_FORMATS")
    ELSE IF format = Some("gif") /\ ~emoji.animated
        THEN Raise("InvalidArgument", "non animated emoji's do not support gif format")
    ELSE IF static_format \notin VALID_STATIC_FORMATS
        THEN Raise("InvalidArgument", "static_format must be one of VALID_STATIC_FORMATS")
    ELSE LET fmt == IF format = None THEN static_format ELSE Get(format)
         IN  Return(Asset(state, Some("/emojis/" \o ToString(emoji.id) \o "." \o fmt)))

_from_emoji(state, emoji, format, static_format) ==
    IF format # None /\ Get(format) \notin VALID_AVATAR_FORMATS
        THEN Raise("InvalidArgument", "format must be None or one of VALID_AVATAR_FORMATS")
    ELSE IF format = Some("gif") /\ ~emoji.animated
        THEN Raise("InvalidArgument", "non animated emoji's do not support gif format")
    ELSE IF static_format \notin VALID_STATIC_FORMATS
        THEN Raise("InvalidArgument", "static_format must be one of VALID_STATIC_FORMATS")
    ELSE LET fmt == IF format = None
                    THEN (IF emoji.animated THEN "gif" ELSE static_format)
                    ELSE Get(format)
         IN  Return(Asset(state, Some("/emojis/" \o ToString(emoji.id) \o "." \o fmt)))

\* str(x)
__str__(self) == IF self._url # None THEN BASE \o Get(self._url) ELSE ""

\* len(x)
__len__(self) == IF Truthy(self._url) THEN Len(BASE \o Get(self._url)) ELSE 0

\* bool(x)
__bool__(self) == self._url # None

-----------------------------------------------------------------------------
(* Inputs of the factories: connection states, domain objects, arguments *)

States == {None, Some("conn")}
Hashes == {None, Some("abc"), Some("a_abc")}
Sizes == {0, 15, 16, 24, 256, 4096, 8192}
FormatArgs == {"webp", "jpeg", "jpg", "png", "gif", "bmp"}
OptFormatArgs == {None} \cup {Some(f) : f \in FormatArgs}
StaticFormatArgs == {"webp", "jpeg", "jpg", "png", "gif"}

Users == [id : {123}, avatar : Hashes,
          default_avatar_url : {Asset(Some("conn"), Some("/embed/avatars/3.png"))}]
IconObjects == [id : {7}, icon : Hashes]
IconPaths == {"team", "app"}
CoverObjects == [id : {9}, cover_image : Hashes]
GuildImageKeys == {"banners", "splashes"}
Guilds == [id : {81}, icon : Hashes]
Stickers == [id : {44}, image : {"def"}]
Emojis == [id : {55}, animated : BOOLEAN]
DirectUrls == {None, Some(""), Some("/emojis/55.gif")}

NoCall == [kind |-> "none"]
NoResult == [tag |-> "none"]

-----------------------------------------------------------------------------
(* One action per factory: the call is made once, with any arguments *)

CallInit ==
    /\ call = NoCall
    /\ \E state \in States, url \in DirectUrls :
        /\ call' = [kind |-> "__init__", state |-> state, url |-> url]
        /\ result' = Return(Asset(state, url))
    /\ UNCHANGED ioVars

CallFromAvatar ==
    /\ call = NoCall
    /\ \E state \in States, user \in Users, format \in OptFormatArgs,
          static_format \in StaticFormatArgs, size \in Sizes :
        /\ call' = [kind |-> "_from_avatar", state |-> state, hash |-> user.avatar,
                    animated |-> is_avatar_animated(user), id |-> user.id,
                    format |-> format, static_format |-> static_format, size |-> size]
        /\ result' = _from_avatar(state, user, format, static_format, size)
    /\ UNCHANGED ioVars

CallFromIcon ==
    /\ call = NoCall
    /\ \E state \in States, object \in IconObjects, path \in IconPaths,
          format \in FormatArgs, size \in Sizes :
        /\ call' = [kind |-> "_from_icon", state |-> state, hash |-> object.icon,
                    id |-> object.id, path |-> path, format |-> format, size |-> size]
        /\ result' = _from_icon(state, object, path, format, size)
    /\ UNCHANGED ioVars

CallFromCoverImage ==
    /\ call = NoCall
    /\ \E state \in States, obj \in CoverObjects, format \in FormatArgs, size \in Sizes :
        /\ call' = [kind |-> "_from_cover_image", state |-> state,
                    hash |-> obj.cover_image, id |-> obj.id,
                    format |-> format, size |-> size]
        /\ result' = _from_cover_image(state, obj, format, size)
    /\ UNCHANGED ioVars

CallFromGuildImage ==
    /\ call = NoCall
    /\ \E state \in States, id \in {81}, hash \in Hashes, key \in GuildImageKeys,
          format \in FormatArgs, size \in Sizes :
        /\ call' = [kind |-> "_from_guild_image", state |-> state, hash |-> hash,
                    id |-> id, key |-> key, format |-> format, size |-> size]
        /\ result' = _from_guild_image(state, id, hash, key, format, size)
    /\ UNCHANGED ioVars

CallFromGuildIcon ==
    /\ call = NoCall
    /\ \E state \in States, guild \in Guilds, format \in OptFormatArgs,
          static_format \in StaticFormatArgs, size \in Sizes :
        /\ call' = [kind |-> "_from_guild_icon", state |-> state, hash |-> guild.icon,
                    animated |-> is_icon_animated(guild), id |-> guild.id,
                    format |-> format, static_format |-> static_format, size |-> size]
        /\ result' = _from_guild_icon(state, guild, format, static_format, size)
    /\ UNCHANGED ioVars

CallFromStickerUrl ==
    /\ call = NoCall
    /\ \E state \in States, sticker \in Stickers, size \in Sizes :
        /\ call' = [kind |-> "_from_sticker_url", state |-> state,
                    hash |-> Some(sticker.image), id |-> sticker.id, size |-> size]
        /\ result' = _from_sticker_url(state, sticker, size)
    /\ UNCHANGED ioVars

CallFromEmoji ==
    /\ call = NoCall
    /\ \E state \in States, emoji \in Emojis, format \in OptFormatArgs,
          static_format \in StaticFormatArgs :
        /\ call' = [kind |-> "_from_emoji", state |-> state, animated |-> emoji.animated,
                    id |-> emoji.id, format |-> format, static_format |-> static_format]
        /\ result' = _from_emoji(state, emoji, format, static_format)
    /\ UNCHANGED ioVars


-----------------------------------------------------------------------------
(* read() and save(): tasks of one event loop, an HTTP transport, files, sinks *)

NumTasks == 2
MaxLen == 2

Tasks == 1..NumTasks

\* what get_from_cdn can give back: an image of 1..MaxLen bytes, or an error
Payload(n) == [i \in 1..n |-> i]
Payloads == {Payload(n) : n \in 1..MaxLen}
TransportErrors == {"NotFound", "HTTPException"}

OldContent == <<9>>
Paths == {"out.png"}
SinkIds == {"bytesio"}

IoUrls == {None, Some(""), Some("/emojis/55.gif")}
IoAssets == {Asset(state, url) : state \in States, url \in IoUrls}

\* fp: a path, a writable io.IOBase (a sink), or an io.IOBase that is not writable
Destinations ==
    {[kind |-> "path", name |-> p] : p \in Paths}
    \cup {[kind |-> "sink", name |-> s] : s \in SinkIds}
    \cup {[kind |-> "readonly", name |-> "stdin"]}

Requests ==
    {[op |-> "read", self |-> a] : a \in IoAssets}
    \cup {[op |-> "save", self |-> a, fp |-> d, seek_begin |-> TRUE] :
            a \in IoAssets, d \in Destinations}
    \cup {[op |-> "save", self |-> a, fp |-> d, seek_begin |-> FALSE] :
            a \in IoAssets, d \in {x \in Destinations : x.kind = "sink"}}

NoReq == [op |-> "none"]

\* The checks of read(), had the connection state been checked first.
read_check_state_first(self) ==
    IF self._state = None
        THEN Some(Raise("DiscordException", "Invalid state (no ConnectionState provided)"))
    ELSE IF ~Truthy(self._url)
        THEN Some(Raise("DiscordException", "Invalid asset (no URL provided)"))
    ELSE None

\* The two checks at the head of read(): the exception raised, or None to go on.
read_check(self) ==
    IF ~Truthy(self._url)
        THEN Some(Raise("DiscordException", "Invalid asset (no URL provided)"))
    ELSE IF self._state = None
        THEN Some(Raise("DiscordException", "Invalid state (no ConnectionState provided)"))
    ELSE None

\* The URL read() hands to get_from_cdn.
read_url(self) == BASE \o Get(self._url)

\* io.BytesIO.write at the current position: overwrite, extending the buffer.
WriteAt(buf, pos, d) ==
    LET n == IF Len(buf) > pos + Len(d) THEN Len(buf) ELSE pos + Len(d)
    IN  [i \in 1..n |-> IF i > pos /\ i <= pos + Len(d) THEN d[i - pos] ELSE buf[i]]

\* Call, had save() opened a path destination before awaiting read().
Call_open_first(t) ==
    /\ pc[t] = "idle"
    /\ running = None
    /\ \E r \in Requests :
        /\ req' = [req EXCEPT ![t] = r]
        /\ files' = IF r.op = "save" /\ r.fp.kind = "path"
                       THEN [files EXCEPT ![r.fp.name] = Some(<< >>)]
                       ELSE files
        /\ IF read_check(r.self) # None
              THEN /\ ret' = [ret EXCEPT ![t] = Get(read_check(r.self))]
                   /\ pc' = [pc EXCEPT ![t] = "done"]
                   /\ http' = http
              ELSE /\ http' = [http EXCEPT ![t] = Append(@, read_url(r.self))]
                   /\ pc' = [pc EXCEPT ![t] = "awaiting"]
                   /\ ret' = ret
    /\ UNCHANGED <<data, handle, sinks, running, factoryVars>>

\* A task calls read() or save(); the coroutine runs to its first suspension:
\* it raises on a failed check, or issues the GET and awaits the transport.
Call(t) ==
    /\ pc[t] = "idle"
    /\ running = None
    /\ \E r \in Requests :
        /\ req' = [req EXCEPT ![t] = r]
        /\ IF read_check(r.self) # None
              THEN /\ ret' = [ret EXCEPT ![t] = Get(read_check(r.self))]
                   /\ pc' = [pc EXCEPT ![t] = "done"]
                   /\ http' = http
              ELSE /\ http' = [http EXCEPT ![t] = Append(@, read_url(r.self))]
                   /\ pc' = [pc EXCEPT ![t] = "awaiting"]
                   /\ ret' = ret
    /\ UNCHANGED <<data, files, handle, sinks, running, factoryVars>>

\* GetFails, had read() caught the transport's exception and asked again.
GetFails_retry(t) ==
    /\ pc[t] = "awaiting"
    /\ running = None
    /\ Len(http[t]) < 2
    /\ http' = [http EXCEPT ![t] = Append(@, read_url(req[t].self))]
    /\ UNCHANGED <<pc, req, data, ret, files, handle, sinks, running, factoryVars>>

\* The transport fails: the exception passes through read() (and save()).
GetFails(t) ==
    /\ pc[t] = "awaiting"
    /\ running = None
    /\ \E e \in TransportErrors :
        ret' = [ret EXCEPT ![t] = Raise(e, "")]
    /\ pc' = [pc EXCEPT ![t] = "done"]
    /\ UNCHANGED <<req, data, http, files, handle, sinks, running, factoryVars>>

\* The transport completes: read() returns the bytes; save() binds them to
\* `data` and runs on without suspending again.
GetReturns(t) ==
    /\ pc[t] = "awaiting"
    /\ running = None
    /\ \E d \in Payloads :
        /\ data' = [data EXCEPT ![t] = Some(d)]
        /\ IF req[t].op = "read"
              THEN /\ ret' = [ret EXCEPT ![t] = Return(d)]
                   /\ pc' = [pc EXCEPT ![t] = "done"]
                   /\ running' = running
              ELSE /\ ret' = ret
                   /\ pc' = [pc EXCEPT ![t] = "dispatch"]
                   /\ running' = Some(t)
    /\ UNCHANGED <<req, http, files, handle, sinks, factoryVars>>

\* The sink after fp.write(data) and, when seek_begin, fp.seek(0), had the
\* seek been made unconditionally.
SinkAfter_always_seek(s, d, seek_begin) ==
    [buf |-> WriteAt(s.buf, s.pos, d), pos |-> 0, closed |-> s.closed]

\* The sink after fp.write(data) and, when seek_begin, fp.seek(0).
SinkAfter(s, d, seek_begin) ==
    [buf |-> WriteAt(s.buf, s.pos, d),
     pos |-> IF seek_begin THEN 0 ELSE s.pos + Len(d),
     closed |-> s.closed]

\* fp is a writable io.IOBase: write, optionally seek(0), return the count.
SaveToSink(t) ==
    /\ pc[t] = "dispatch"
    /\ req[t].fp.kind = "sink"
    /\ LET id == req[t].fp.name
           s == sinks[id]
           d == Get(data[t])
       IN  \/ /\ sinks' = [sinks EXCEPT ![id] = SinkAfter(s, d, req[t].seek_begin)]
              /\ ret' = [ret EXCEPT ![t] = Return(Len(d))]
           \/ \* fp.write raises: nothing is written, no seek follows
              /\ sinks' = sinks
              /\ ret' = [ret EXCEPT ![t] = Raise("OSError", "")]
    /\ pc' = [pc EXCEPT ![t] = "done"]
    /\ running' = None
    /\ UNCHANGED <<req, data, http, files, handle, factoryVars>>

\* fp is an io.IOBase that is not writable: open(fp, 'wb') raises TypeError.
SaveBadTarget(t) ==
    /\ pc[t] = "dispatch"
    /\ req[t].fp.kind = "readonly"
    /\ ret' = [ret EXCEPT ![t] = Raise("TypeError", "")]
    /\ pc' = [pc EXCEPT ![t] = "done"]
    /\ running' = None
    /\ UNCHANGED <<req, data, http, files, handle, sinks, factoryVars>>

\* The mode of an exclusive creation.
OpenMode_exclusive == "xb"

\* The mode save() passes to open().
OpenMode == "wb"

\* open(path, mode) for the binary write modes, on a file holding `old`
\* (None: no such file): the content after the open, or None when open raises.
open(old, mode) ==
    IF mode = "xb" /\ old # None THEN None
    ELSE Some(<< >>)

\* with open(fp, 'wb') as f: the file is created or truncated and f is open;
\* or open raises and there is no f.
SaveOpen(t) ==
    /\ pc[t] = "dispatch"
    /\ req[t].fp.kind = "path"
    /\ LET p == req[t].fp.name
       IN  \/ /\ open(files[p], OpenMode) # None
              /\ files' = [files EXCEPT ![p] = open(files[p], OpenMode)]
              /\ handle' = [handle EXCEPT ![t] = "open"]
              /\ pc' = [pc EXCEPT ![t] = "opened"]
              /\ UNCHANGED <<ret, running>>
           \/ /\ files' = files
              /\ handle' = handle
              /\ ret' = [ret EXCEPT ![t] =
                    Raise(IF open(files[p], OpenMode) = None
                          THEN "FileExistsError" ELSE "OSError", "")]
              /\ pc' = [pc EXCEPT ![t] = "done"]
              /\ running' = None
    /\ UNCHANGED <<req, data, http, sinks, factoryVars>>

\* return f.write(data): all bytes reach the file, or the write raises after
\* only a proper prefix of them did.
SaveWrite(t) ==
    /\ pc[t] = "opened"
    /\ LET p == req[t].fp.name
           d == Get(data[t])
       IN  \/ /\ files' = [files EXCEPT ![p] = Some(d)]
              /\ ret' = [ret EXCEPT ![t] = Return(Len(d))]
           \/ \E k \in 0..(Len(d) - 1) :
              /\ files' = [files EXCEPT ![p] = Some(SubSeq(d, 1, k))]
              /\ ret' = [ret EXCEPT ![t] = Raise("OSError", "")]
    /\ pc' = [pc EXCEPT ![t] = "exiting"]
    /\ UNCHANGED <<req, data, http, handle, sinks, running, factoryVars>>

\* f after the block, had save() closed it by a plain f.close() after the write.
WithExit_no_with(h, outcome) == IF outcome.tag = "raise" THEN h ELSE "closed"

\* f after the with block is left, by return and by exception alike: closed.
WithExit(h, outcome) == "closed"

SaveExit(t) ==
    /\ pc[t] = "exiting"
    /\ handle' = [handle EXCEPT ![t] = WithExit(handle[t], ret[t])]
    /\ pc' = [pc EXCEPT ![t] = "done"]
    /\ running' = None
    /\ UNCHANGED <<req, data, ret, http, files, sinks, factoryVars>>

-----------------------------------------------------------------------------
(* Specifications *)

IoIdle ==
    /\ pc = [t \in Tasks |-> "idle"]
    /\ req = [t \in Tasks |-> NoReq]
    /\ data = [t \in Tasks |-> None]
    /\ ret = [t \in Tasks |-> NoResult]
    /\ http = [t \in Tasks |-> << >>]
    /\ handle = [t \in Tasks |-> "none"]
    /\ running = None

\* SpecFactory: one call of a factory or of the constructor, any arguments.
InitFactory ==
    /\ call = NoCall
    /\ result = NoResult
    /\ IoIdle
    /\ files = [p \in Paths |-> None]
    /\ sinks = [s \in SinkIds |-> [buf |-> << >>, pos |-> 0, closed |-> FALSE]]

NextFactory ==
    \/ CallInit
    \/ CallFromAvatar
    \/ CallFromIcon
    \/ CallFromCoverImage
    \/ CallFromGuildImage
    \/ CallFromGuildIcon
    \/ CallFromStickerUrl
    \/ CallFromEmoji

SpecFactory == InitFactory /\ [][NextFactory]_vars

\* Spec: the tasks of one event loop calling read() and save().
Init ==
    /\ call = NoCall
    /\ result = NoResult
    /\ IoIdle
    /\ files \in [Paths -> {None, Some(OldContent)}]
    /\ sinks \in [SinkIds -> {[buf |-> << >>, pos |-> 0, closed |-> FALSE],
                              [buf |-> OldContent, pos |-> Len(OldContent),
                               closed |-> FALSE]}]

Next ==
    \E t \in Tasks :
        \/ Call(t)
        \/ GetFails(t)
        \/ GetReturns(t)
        \/ SaveToSink(t)
        \/ SaveBadTarget(t)
        \/ SaveOpen(t)
        \/ SaveWrite(t)
        \/ SaveExit(t)

Spec == Init /\ [][Next]_vars


-----------------------------------------------------------------------------
(* Properties of the factories and of str / len / bool (SpecFactory) *)

SizedFactories == {"_from_avatar", "_from_icon", "_from_cover_image",
                   "_from_guild_image", "_from_guild_icon", "_from_sticker_url"}
AnimatedFactories == {"_from_avatar", "_from_guild_icon", "_from_emoji"}
PowersOfTwoInRange == {16, 32, 64, 128, 256, 512, 1024, 2048, 4096}

RaisedInvalidArgument == result.tag = "raise" /\ result.exc = "InvalidArgument"

\* The URL template of an animated-capable factory, filled from the call.
ExpectedUrl(c, fmt) ==
    CASE c.kind = "_from_avatar" ->
            "/avatars/" \o ToString(c.id) \o "/" \o Get(c.hash) \o "." \o fmt
                \o "?size=" \o ToString(c.size)
      [] c.kind = "_from_guild_icon" ->
            "/icons/" \o ToString(c.id) \o "/" \o Get(c.hash) \o "." \o fmt
                \o "?size=" \o ToString(c.size)
      [] c.kind = "_from_emoji" ->
            "/emojis/" \o ToString(c.id) \o "." \o fmt

\* The arguments other than format are valid and the source has an image.
OtherArgsValid(c) ==
    /\ c.static_format \in {"webp", "jpeg", "jpg", "png"}
    /\ c.kind # "_from_emoji" => c.size \in PowersOfTwoInRange /\ c.hash # None

\* C1: every factory that takes a size fails with InvalidArgument on every size
\* that is not a power of two in [16, 4096], whatever the other arguments are
\* and whether or not the source has an image hash.
C1_InvalidSizeRaises ==
    (call.kind \in SizedFactories /\ call.size \notin PowersOfTwoInRange)
        => RaisedInvalidArgument

\* C2: for every Asset value the presence observations agree: bool is true
\* exactly when urlPath is non-empty, len equals the number of characters of
\* str, and str is empty exactly when bool is false.
C2_PresenceAgrees ==
    result.tag = "return" =>
        LET a == result.value
        IN  /\ __bool__(a) <=> (a._url # None /\ Get(a._url) # "")
            /\ __len__(a) = Len(__str__(a))
            /\ (__str__(a) = "") <=> ~__bool__(a)

\* C5: format 'gif' asked of the avatar, guild-icon or emoji factory fails
\* with InvalidArgument when the source is not animated; when it is animated
\* and size and static_format are valid, the call succeeds and the urlPath
\* carries the format 'gif'.
C5_GifOnlyWhenAnimated ==
    (call.kind \in AnimatedFactories /\ call.format = Some("gif")) =>
        /\ ~call.animated => RaisedInvalidArgument
        /\ (call.animated /\ OtherArgsValid(call)) =>
              /\ result.tag = "return"
              /\ result.value._url = Some(ExpectedUrl(call, "gif"))

C5_Witness ==
    /\ call.kind = "_from_guild_icon"
    /\ call.format = Some("gif")
    /\ call.animated
    /\ result.tag = "return"
    /\ result.value._url = Some("/icons/81/a_abc.gif?size=4096")

\* C8: with format unspecified, valid remaining arguments and an image
\* present, the avatar, guild-icon and emoji factories put 'gif' in the
\* urlPath exactly when the source is animated and the static format
\* otherwise; avatar 123 / 'abc' / 256 gives '/avatars/123/abc.webp?size=256'
\* and the animated emoji 55 gives '/emojis/55.gif'.
C8_DefaultFormat ==
    /\ (call.kind \in AnimatedFactories /\ call.format = None /\ OtherArgsValid(call)) =>
          /\ result.tag = "return"
          /\ result.value._url =
                Some(ExpectedUrl(call, IF call.animated THEN "gif" ELSE call.static_format))
    /\ (call.kind = "_from_avatar" /\ call.id = 123 /\ call.hash = Some("abc")
            /\ call.format = None /\ call.static_format = "webp" /\ call.size = 256) =>
          /\ result.tag = "return"
          /\ result.value._url = Some("/avatars/123/abc.webp?size=256")
          /\ __str__(result.value) = "https://cdn.discordapp.com/avatars/123/abc.webp?size=256"
    /\ (call.kind = "_from_emoji" /\ call.id = 55 /\ call.animated /\ call.format = None
            /\ call.static_format = "png") =>
          /\ result.tag = "return"
          /\ result.value._url = Some("/emojis/55.gif")

C8_Witness ==
    /\ call.kind = "_from_emoji"
    /\ call.id = 55
    /\ call.animated
    /\ call.format = None
    /\ result.tag = "return"
    /\ result.value._url = Some("/emojis/55.gif")


-----------------------------------------------------------------------------
(* Properties of read() and save() (Spec) *)

UrlPresent(a) == a._url # None /\ a._url # Some("")
ContextPresent(a) == a._state # None
Started(t) == pc[t] # "idle"
IsSave(t, kind) == req[t].op = "save" /\ req[t].fp.kind = kind

\* The step finishes task t's coroutine.
Finishes(t) == pc[t] # "done" /\ pc'[t] = "done"

\* C3 (as stated): a path destination is opened exclusively: when a file
\* already exists there, save() fails and the file's content is unchanged.
C3_ExclusiveOpen ==
    [][\A t \in Tasks :
        (pc[t] = "dispatch" /\ IsSave(t, "path") /\ pc'[t] # "dispatch"
            /\ files[req[t].fp.name] # None)
        => (pc'[t] = "done" /\ ret'[t].tag = "raise" /\ files' = files)]_vars

\* C3 (amended): a path destination is opened for truncating binary write:
\* a file that already exists there never makes the open fail with a
\* file-exists error; when the open succeeds the old content is discarded,
\* and when save() then returns the file holds exactly the bytes read.
C3_TruncatingOpen ==
    [][\A t \in Tasks :
        /\ (pc[t] = "dispatch" /\ IsSave(t, "path") /\ pc'[t] # "dispatch"
                /\ files[req[t].fp.name] # None)
           => \/ /\ pc'[t] = "opened"
                 /\ files'[req[t].fp.name] = Some(<< >>)
              \/ /\ pc'[t] = "done"
                 /\ ret'[t].tag = "raise"
                 /\ ret'[t].exc # "FileExistsError"
                 /\ files' = files
        /\ (Finishes(t) /\ IsSave(t, "path") /\ ret'[t].tag = "return")
           => files'[req[t].fp.name] = data[t]]_vars

C3_Witness ==
    \E t \in Tasks :
        /\ pc[t] = "done"
        /\ IsSave(t, "path")
        /\ ret[t].tag = "return"
        /\ data[t] = Some(<<1, 2>>)
        /\ files[req[t].fp.name] = Some(<<1, 2>>)
        /\ \E u \in Tasks \ {t} :
            /\ pc[u] = "done"
            /\ IsSave(u, "path")
            /\ req[u].fp = req[t].fp
            /\ ret[u].tag = "return"
            /\ data[u] = Some(<<1>>)

\* C4: read() on an Asset whose urlPath is absent or empty, or whose context
\* is absent, fails with DiscordException and issues no GET; with both absent
\* the failure is the 'no URL' one; a GET is issued only when both are present.
C4_ReadPreconditions ==
    \A t \in Tasks : Started(t) =>
        LET a == req[t].self
        IN  /\ (~UrlPresent(a) \/ ~ContextPresent(a)) =>
                  /\ pc[t] = "done"
                  /\ ret[t].tag = "raise"
                  /\ ret[t].exc = "DiscordException"
                  /\ http[t] = << >>
            /\ (~UrlPresent(a) /\ ~ContextPresent(a)) =>
                  ret[t].msg = "Invalid asset (no URL provided)"
            /\ http[t] # << >> => (UrlPresent(a) /\ ContextPresent(a))

C4_Witness ==
    \E t \in Tasks :
        /\ pc[t] = "done"
        /\ req[t].op = "read"
        /\ req[t].self = Asset(None, None)
        /\ ret[t] = Raise("DiscordException", "Invalid asset (no URL provided)")
        /\ \E u \in Tasks \ {t} :
            /\ pc[u] = "done"
            /\ req[u].self = Asset(None, Some("/emojis/55.gif"))
            /\ ret[u].tag = "raise"
            /\ http[u] = << >>

\* The calls started whose preconditions hold.
ReadsStarted == {t \in Tasks : Started(t) /\ UrlPresent(req[t].self)
                                  /\ ContextPresent(req[t].self)}

RECURSIVE GetsIssued(_)
GetsIssued(ts) ==
    IF ts = {} THEN 0
    ELSE LET t == CHOOSE x \in ts : TRUE
         IN  Len(http[t]) + GetsIssued(ts \ {t})

\* C6: every read() whose preconditions hold issues exactly one GET of the
\* full URL, also when the transport fails (no retry) and when other reads
\* of the same Asset are in flight (no deduplication): the GETs issued number
\* the reads started.
C6_OneGetPerRead ==
    /\ \A t \in ReadsStarted :
          http[t] = <<"https://cdn.discordapp.com" \o Get(req[t].self._url)>>
    /\ \A t \in Tasks :
          (pc[t] = "done" /\ ret[t].tag = "raise"
              /\ ret[t].exc \in {"NotFound", "HTTPException"})
          => Len(http[t]) = 1
    /\ GetsIssued(Tasks) = Cardinality(ReadsStarted)

C6_Witness ==
    \E t \in Tasks, u \in Tasks :
        /\ t # u
        /\ pc[t] = "done"
        /\ ret[t] = Raise("NotFound", "")
        /\ pc[u] = "awaiting"
        /\ req[t].self = req[u].self
        /\ GetsIssued(Tasks) >= 2

\* C7: when save() writes to a path and read() succeeded, the file opened by
\* save() is closed whenever save() returns or raises, also when the write
\* fails midway; on success the file holds exactly the bytes read and save()
\* returns their count.
C7_FileClosed ==
    [][\A t \in Tasks :
        (Finishes(t) /\ IsSave(t, "path") /\ data[t] # None) =>
            /\ handle'[t] # "open"
            /\ handle[t] = "open" => handle'[t] = "closed"
            /\ ret'[t].tag = "return" =>
                  /\ handle'[t] = "closed"
                  /\ files'[req[t].fp.name] = data[t]
                  /\ ret'[t].value = Len(Get(data[t]))]_vars

C7_Witness ==
    \E t \in Tasks :
        /\ pc[t] = "done"
        /\ IsSave(t, "path")
        /\ data[t] = Some(<<1, 2>>)
        /\ ret[t] = Raise("OSError", "")
        /\ files[req[t].fp.name] = Some(<<1>>)
        /\ handle[t] = "closed"

\* C9: when save() writes to an open writable sink, the bytes read are
\* written at the sink's position, their count is returned, the sink stays
\* open, and its position afterwards is 0 exactly when seek_begin is true,
\* and the end of the write otherwise.
C9_SinkWrite ==
    [][\A t \in Tasks :
        (Finishes(t) /\ IsSave(t, "sink") /\ data[t] # None /\ ret'[t].tag = "return") =>
            LET id == req[t].fp.name
                d == Get(data[t])
                before == sinks[id]
                after == sinks'[id]
            IN  /\ SubSeq(after.buf, before.pos + 1, before.pos + Len(d)) = d
                /\ SubSeq(after.buf, 1, before.pos) = SubSeq(before.buf, 1, before.pos)
                /\ ret'[t].value = Len(d)
                /\ ~after.closed
                /\ after.pos = (IF req[t].seek_begin THEN 0 ELSE before.pos + Len(d))]_vars

C9_Witness ==
    \E t \in Tasks :
        /\ pc[t] = "done"
        /\ IsSave(t, "sink")
        /\ ~req[t].seek_begin
        /\ ret[t] = Return(2)
        /\ sinks[req[t].fp.name].pos = 3
        /\ sinks[req[t].fp.name].buf = <<9, 1, 2>>
        /\ ~sinks[req[t].fp.name].closed

\* C10: save() completes read() before it touches the destination: when
\* read() fails (no urlPath, no context, a transport error) save() fails with
\* that error and the step leaves every file, sink and file handle as it was;
\* files and sinks change only in steps of a save() whose read() has returned.
C10_ReadFirst ==
    [][/\ \A t \in Tasks :
            (Finishes(t) /\ req'[t].op = "save" /\ pc[t] \in {"idle", "awaiting"}) =>
                /\ ret'[t].tag = "raise"
                /\ ret'[t].exc \in {"DiscordException", "NotFound", "HTTPException"}
                /\ files' = files
                /\ sinks' = sinks
                /\ handle' = handle
       /\ (files' # files \/ sinks' # sinks \/ handle' # handle) =>
            \E t \in Tasks :
                /\ pc'[t] # pc[t]
                /\ req[t].op = "save"
                /\ data[t] # None
                /\ Len(http[t]) = 1]_vars

C10_Witness ==
    \E t \in Tasks :
        /\ pc[t] = "done"
        /\ IsSave(t, "path")
        /\ ret[t] = Raise("HTTPException", "")
        /\ handle[t] = "none"
        /\ files[req[t].fp.name] = Some(OldContent)
        /\ \E u \in Tasks \ {t} :
            /\ pc[u] = "done"
            /\ IsSave(u, "sink")
            /\ ret[u] = Raise("DiscordException", "Invalid state (no ConnectionState provided)")
            /\ sinks[req[u].fp.name] = [buf |-> << >>, pos |-> 0, closed |-> FALSE]


====
